---- MODULE Spec2Model ----
(***************************************************************************)
(* macrotk: attribute-argument parsing for procedural macros.              *)
(*                                                                         *)
(*   macrotk/src/meta.rs        MetaStream (next_name / next_value), Name, *)
(*                              FromMetaValue for String, bool, i64, Name  *)
(*                              and for every FromMeta type ({ ... })      *)
(*   macrotk-derive/src/lib.rs  #[derive(FromMeta)]: the generated         *)
(*                              from_meta loop over a MetaStream           *)
(*   macrotk-core/src/meta.rs   MetaValue (tree mode), MetaList::get       *)
(*                                                                         *)
(* A token stream is a sequence of token trees; a ParseStream is a cursor  *)
(* into one scope of it.  Spans are positions: the path of indices that    *)
(* leads to a token, so every token of the input has its own span.         *)
(***************************************************************************)
EXTENDS Integers, Sequences, FiniteSets, TLC

VARIABLES
    input,    \* the attribute body handed to the parser: a sequence of token trees
    decl,     \* the derived struct's field attributes: field name -> #[macrotk(..)] arguments
    ms,       \* stream mode: the MetaStream's cursor (a ParseStream)
    last,     \* stream mode: the last MetaStream call: operation, type, cursor before, result
    pc,       \* derive: where the derive and its generated from_meta are
    slots,    \* derive: the generated `let mut <field>: Option<ty>` locals
    pending,  \* derive: the field whose match arm is running
    out,      \* derive: what from_meta returned
    tree,     \* tree mode: the result of MetaValue::parse on the input
    got       \* tree mode: the last MetaList::get call and its result

vars == <<input, decl, ms, last, pc, slots, pending, out, tree, got>>

-----------------------------------------------------------------------------
(* Token trees.  k is the token's class, s its source text, body the      *)
(* interior of a delimited group.                                          *)

Tok(k, s) == [k |-> k, s |-> s, body |-> <<>>]
Grp(k, body) == [k |-> k, s |-> "", body |-> body]

Id(s) == Tok("ident", s)
Eq == Tok("eq", "=")
Comma == Tok("comma", ",")
Colon2 == Tok("colon2", "::")
StrLit(s) == Tok("str", s)
BoolLit(s) == Tok("bool", s)
IntLit(s) == Tok("int", s)
Brace(body) == Grp("brace", body)
Paren(body) == Grp("paren", body)

\* Span::call_site(): the span of the macro invocation, not of any token.
CallSite == <<0>>

NoSpan == <<>>

-----------------------------------------------------------------------------
(* ParseStream: the cursor of one scope.                                   *)

Cursor(toks, base) == [toks |-> toks, pos |-> 1, base |-> base]

\* ParseStream::is_empty
IsEmpty(c) == c.pos > Len(c.toks)

Peek(c) == c.toks[c.pos]

\* ParseStream::peek(kind)
PeekK(c, k) == ~IsEmpty(c) /\ Peek(c).k = k

Adv(c) == [c EXCEPT !.pos = @ + 1]

TokSpan(c) == c.base \o <<c.pos>>

\* The span an error at the cursor gets: the token there, or, at the end of
\* the scope, the scope's own span (the group, or the call site at top level).
HereSpan(c) == IF ~IsEmpty(c) THEN TokSpan(c)
               ELSE IF c.base = <<>> THEN CallSite ELSE c.base

\* Result<T, Error> together with the cursor the call leaves behind.
Ok(v, c) == [ok |-> TRUE, val |-> v, msg |-> <<>>, span |-> NoSpan, cur |-> c]
Err(m, sp, c) == [ok |-> FALSE, val |-> [t |-> "none"], msg |-> m, span |-> sp, cur |-> c]

-----------------------------------------------------------------------------
(* syn::Path: an optional leading `::`, then identifiers separated by      *)
(* `::`.  A failed parse leaves the cursor where it failed (a ParseStream  *)
(* does not rewind).                                                       *)

PathVal(lead, segs, from, to) ==
    [t |-> "path", lead |-> lead, segs |-> segs, from |-> from, to |-> to]

RECURSIVE PathRest(_, _)
PathRest(c, p) ==
    IF PeekK(c, "colon2")
    THEN LET c1 == Adv(c)
         IN IF PeekK(c1, "ident")
            THEN PathRest(Adv(c1),
                          [p EXCEPT !.segs = Append(@, Peek(c1).s), !.to = TokSpan(c1)])
            ELSE Err(<<"expected identifier">>, HereSpan(c1), c1)
    ELSE Ok(p, c)

ParsePath(c) ==
    LET lead == PeekK(c, "colon2")
        c1 == IF lead THEN Adv(c) ELSE c
    IN IF PeekK(c1, "ident")
       THEN PathRest(Adv(c1), PathVal(lead, <<Peek(c1).s>>, TokSpan(c), TokSpan(c1)))
       ELSE Err(<<"expected identifier">>, HereSpan(c1), c1)

\* path.into_token_stream().to_string(): the path's tokens, in order.
RECURSIVE SegText(_)
SegText(segs) ==
    IF Len(segs) = 1 THEN <<segs[1]>>
    ELSE <<segs[1], "::">> \o SegText(Tail(segs))

PathText(p) == (IF p.lead THEN <<"::">> ELSE <<>>) \o SegText(p.segs)

\* Name::new
NameNew(p) == [t |-> "Name", name |-> PathText(p), span |-> <<p.from, p.to>>]

\* Name::as_str() compared with a string literal key
NameIs(n, key) == n.name = <<key>>

\* input.parse::<Token![=]>() and input.parse::<Token![,]>()
ParseTok(c, k, what) ==
    IF PeekK(c, k) THEN Ok(Peek(c), Adv(c))
    ELSE Err(<<"expected", what>>, HereSpan(c), c)

-----------------------------------------------------------------------------
(* Literals.  A literal token carries its source text; value() and         *)
(* base10_parse() compute the value from it.                               *)

\* mutant: the source text, escapes unresolved
LitStrValue_Raw(s) ==
    CASE s = "\"hi\"" -> "hi"
      [] s = "\"bye\"" -> "bye"
      [] s = "\"x\"" -> "x"
      [] s = "\"\\x68i\"" -> "\\x68i"
      [] s = "\"\"" -> ""
      [] OTHER -> "?"

\* LitStr::value(): the text between the quotes with its escapes resolved.
LitStrValue(s) ==
    CASE s = "\"hi\"" -> "hi"
      [] s = "\"bye\"" -> "bye"
      [] s = "\"x\"" -> "x"
      [] s = "\"\\x68i\"" -> "hi"
      [] s = "\"\"" -> ""
      [] OTHER -> "?"

\* LitBool::value(): the token is the identifier true or false.
LitBoolValue(s) == s = "true"

\* LitInt::base10_parse::<i64>(): the digits in base 10 (a radix prefix resolved,
\* a type suffix dropped) parsed as i64; a value outside i64 is an error.
Base10Parse(s) ==
    CASE s = "5" -> [ok |-> TRUE, n |-> 5]
      [] s = "0" -> [ok |-> TRUE, n |-> 0]
      [] s = "0x10" -> [ok |-> TRUE, n |-> 16]
      [] s = "7i64" -> [ok |-> TRUE, n |-> 7]
      [] s = "9223372036854775808" -> [ok |-> FALSE, n |-> 0]
      [] OTHER -> [ok |-> FALSE, n |-> 0]

StringV(s) == [t |-> "String", s |-> s]
BoolV(b) == [t |-> "bool", b |-> b]
I64V(n) == [t |-> "i64", n |-> n]
RecV(ty, f) == [t |-> "rec", ty |-> ty, f |-> f]
None == [t |-> "none"]

\* impl FromMetaValue for String
StringFromMetaValue(c) ==
    IF PeekK(c, "str") THEN Ok(StringV(LitStrValue(Peek(c).s)), Adv(c))
    ELSE Err(<<"expected string literal">>, HereSpan(c), c)

\* impl FromMetaValue for bool
BoolFromMetaValue(c) ==
    IF PeekK(c, "bool") THEN Ok(BoolV(LitBoolValue(Peek(c).s)), Adv(c))
    ELSE Err(<<"expected boolean literal">>, HereSpan(c), c)

\* impl FromMetaValue for i64: the literal is consumed, then its digits parsed
I64FromMetaValue(c) ==
    IF PeekK(c, "int")
    THEN LET r == Base10Parse(Peek(c).s)
         IN IF r.ok THEN Ok(I64V(r.n), Adv(c))
            ELSE Err(<<"number too large to fit in target type">>, TokSpan(c), Adv(c))
    ELSE Err(<<"expected integer literal">>, HereSpan(c), c)

\* impl FromMetaValue for Name
NameFromMetaValue(c) ==
    LET r == ParsePath(c)
    IN IF r.ok THEN Ok(NameNew(r.val), r.cur) ELSE r

-----------------------------------------------------------------------------
(* #[derive(FromMeta)]: the structs of the model.                          *)
(*   struct Outer { keyword: String, flag: bool, count: i64, inner: Inner } *)
(*   struct Inner { keyword: String, #[macrotk(default)] flag: bool }      *)
(* Outer's field attributes are the state variable decl.                   *)

RecTypes == {"Outer", "Inner"}

StructFields(ty) ==
    IF ty = "Outer"
    THEN << [name |-> "keyword", ty |-> "String"], [name |-> "flag", ty |-> "bool"],
            [name |-> "count", ty |-> "i64"], [name |-> "inner", ty |-> "Inner"] >>
    ELSE << [name |-> "keyword", ty |-> "String"], [name |-> "flag", ty |-> "bool"] >>

FieldNames(ty) == {StructFields(ty)[i].name : i \in 1..Len(StructFields(ty))}

FieldIndex(ty, f) == CHOOSE i \in 1..Len(StructFields(ty)) : StructFields(ty)[i].name = f

FieldType(ty, f) == StructFields(ty)[FieldIndex(ty, f)].ty

\* A field's #[macrotk(...)] arguments, the attributes' argument lists in order.
\* An argument is a path, given by its segments.
InnerAttrs == [keyword |-> <<>>, flag |-> << <<"default">> >>]

FieldAttrs(ty, f) == IF ty = "Outer" THEN decl[f] ELSE InnerAttrs[f]

\* NamedField::new: use_default starts false; each argument that is the
\* identifier `default` sets it, any other argument is an error.
RECURSIVE NamedFieldNew(_, _)
NamedFieldNew(args, use_default) ==
    IF args = <<>> THEN [ok |-> TRUE, use_default |-> use_default]
    ELSE IF Len(Head(args)) = 1 /\ Head(args)[1] = "default"
         THEN NamedFieldNew(Tail(args), TRUE)
         ELSE [ok |-> FALSE, use_default |-> use_default]

UseDefault(ty, f) == NamedFieldNew(FieldAttrs(ty, f), FALSE).use_default

\* derive_from_meta's `fields`: Err as soon as one field's attributes are rejected.
FieldsOk(ty) == \A f \in FieldNames(ty) : NamedFieldNew(FieldAttrs(ty, f), FALSE).ok

\* Default::default() of a field type (a derived struct: every field's default).
RECURSIVE DefaultOf(_)
DefaultOf(ty) ==
    CASE ty = "String" -> StringV("")
      [] ty = "bool" -> BoolV(FALSE)
      [] ty = "i64" -> I64V(0)
      [] OTHER -> RecV(ty, [f \in FieldNames(ty) |-> DefaultOf(FieldType(ty, f))])

-----------------------------------------------------------------------------
(* MetaStream and the generated from_meta.  The two are mutually           *)
(* recursive: a field whose type derives FromMeta is read by next_value    *)
(* through a fresh MetaStream over the interior of a `{ ... }` group.      *)

\* What a MetaStream call returns: Ok(None), Ok(Some(val)) or Err(msg at span),
\* and the cursor it leaves.
MsNone(c) == [tag |-> "None", val |-> None, msg |-> <<>>, span |-> NoSpan, cur |-> c]
MsSome(v, c) == [tag |-> "Some", val |-> v, msg |-> <<>>, span |-> NoSpan, cur |-> c]
MsErr(r) == [tag |-> "Err", val |-> None, msg |-> r.msg, span |-> r.span, cur |-> r.cur]

\* mutant: the `=` is eaten if it is there, and its absence is not an error
NameAfterPath_EqOptional(path, eq) ==
    IF ~eq.ok THEN MsSome(NameNew(path.val), path.cur)
    ELSE MsSome(NameNew(path.val), eq.cur)

\* MetaStream::next_name
NameAfterPath(path, eq) ==
    IF ~eq.ok THEN MsErr(eq) ELSE MsSome(NameNew(path.val), eq.cur)

NameAfter(path) ==
    IF ~path.ok THEN MsErr(path)
    ELSE NameAfterPath(path, ParseTok(path.cur, "eq", "="))

\* mutant: no is_empty test before the path is parsed
NextName_NoEmptyTest(c) == NameAfter(ParsePath(c))

NextName(c) == IF IsEmpty(c) THEN MsNone(c) ELSE NameAfter(ParsePath(c))

RECURSIVE FromMeta(_, _)

\* mutant: an error inside the group is dropped and the default taken
Braced_DropsError(r, c) ==
    IF r.ok THEN Ok(r.val, Adv(c)) ELSE Ok(DefaultOf("Inner"), Adv(c))

\* impl<T: FromMeta> FromMetaValue for T: syn::braced!, then T::from_meta on
\* the group's interior
Braced(r, c) == IF r.ok THEN Ok(r.val, Adv(c)) ELSE Err(r.msg, r.span, Adv(c))

RecFromMetaValue(ty, c) ==
    IF PeekK(c, "brace")
    THEN Braced(FromMeta(ty, Cursor(Peek(c).body, TokSpan(c))), c)
    ELSE Err(<<"expected curly braces">>, HereSpan(c), c)

\* T::from_meta_value for the value types of the model
FromMetaValue(ty, c) ==
    CASE ty = "String" -> StringFromMetaValue(c)
      [] ty = "bool" -> BoolFromMetaValue(c)
      [] ty = "i64" -> I64FromMetaValue(c)
      [] ty = "Name" -> NameFromMetaValue(c)
      [] OTHER -> RecFromMetaValue(ty, c)

\* MetaStream::next_value::<T>, from `// eat the next comma, if it exists`
EatComma(result, comma) ==
    IF ~comma.ok THEN MsErr(comma) ELSE MsSome(result.val, comma.cur)

\* mutant: a comma is eaten if one is there, and its absence is not an error
ValueAfter_CommaOptional(result) ==
    IF ~result.ok THEN MsErr(result)
    ELSE IF PeekK(result.cur, "comma") THEN MsSome(result.val, Adv(result.cur))
         ELSE MsSome(result.val, result.cur)

ValueAfter(result) ==
    IF ~result.ok THEN MsErr(result)
    ELSE IF ~IsEmpty(result.cur)
         THEN EatComma(result, ParseTok(result.cur, "comma", ","))
         ELSE MsSome(result.val, result.cur)

\* MetaStream::next_value::<T>
NextValue(ty, c) ==
    IF IsEmpty(c) THEN MsNone(c) ELSE ValueAfter(FromMetaValue(ty, c))

(* The generated from_meta, one step at a time.  Its frame is                *)
(*   pc       name: at `while let Some(__name) = __m.next_name()`           *)
(*            value: in the matched field's arm, at __m.next_value()        *)
(*            unwrap: after the loop, at Ok(Type { .. })                    *)
(*            done: returned                                                *)
(*   ms       __m's cursor;  slots  the Option<ty> locals                   *)
(*   pending  the matched field;  out  the value returned                   *)
(* The generated code reads next_name and next_value as Option<Result<..>>: *)
(* None ends the loop (or is "expected value"), Some(Err) is returned by ?. *)

\* #(#definitions)*
Frame(ty, c) ==
    [pc |-> "name", ms |-> c, slots |-> [f \in FieldNames(ty) |-> None],
     pending |-> "", out |-> None]

\* match __name?.as_str() { #(#searches)* s => return Err(..) }
MatchName(ty, f, r) ==
    IF \E g \in FieldNames(ty) : NameIs(r.val, g)
    THEN [f EXCEPT !.pc = "value", !.ms = r.cur,
                   !.pending = CHOOSE g \in FieldNames(ty) : NameIs(r.val, g)]
    ELSE [f EXCEPT !.pc = "done", !.ms = r.cur,
                   !.out = Err(<<"unexpected value">> \o r.val.name, CallSite, r.cur)]

\* while let Some(__name) = __m.next_name() { match __name?.as_str() { .. } }
NameArrives(ty, f, r) ==
    CASE r.tag = "None" -> [f EXCEPT !.pc = "unwrap"]
      [] r.tag = "Err" ->
           [f EXCEPT !.pc = "done", !.ms = r.cur, !.out = Err(r.msg, r.span, r.cur)]
      [] OTHER -> MatchName(ty, f, r)

NameStep(ty, f) == NameArrives(ty, f, NextName(f.ms))

\* mutant: a slot already filled keeps its value
ValueArrives_FirstKept(f, r) ==
    CASE r.tag = "None" ->
           [f EXCEPT !.pc = "done",
                     !.out = Err(<<"expected value for", f.pending>>, CallSite, r.cur)]
      [] r.tag = "Err" ->
           [f EXCEPT !.pc = "done", !.ms = r.cur, !.out = Err(r.msg, r.span, r.cur)]
      [] OTHER ->
           [f EXCEPT !.pc = "name", !.ms = r.cur,
                     !.slots[f.pending] = IF @ = None THEN r.val ELSE @]

\* #name_str => #name = Some(__m.next_value().unwrap_or(Err(..))?)
ValueArrives(f, r) ==
    CASE r.tag = "None" ->
           [f EXCEPT !.pc = "done",
                     !.out = Err(<<"expected value for", f.pending>>, CallSite, r.cur)]
      [] r.tag = "Err" ->
           [f EXCEPT !.pc = "done", !.ms = r.cur, !.out = Err(r.msg, r.span, r.cur)]
      [] OTHER ->
           [f EXCEPT !.pc = "name", !.ms = r.cur, !.slots[f.pending] = r.val]

ValueStep(ty, f) == ValueArrives(f, NextValue(FieldType(ty, f.pending), f.ms))

\* the required fields left empty, by position
Missing(ty, f) ==
    {i \in 1..Len(StructFields(ty)) :
        /\ ~UseDefault(ty, StructFields(ty)[i].name)
        /\ f.slots[StructFields(ty)[i].name] = None}

\* mutant: every field is unwrapped with unwrap_or_default
UnwrapFields_AllDefault(ty, f, missing) ==
    [f EXCEPT
       !.pc = "done",
       !.out = Ok(RecV(ty, [g \in FieldNames(ty) |->
                              IF f.slots[g] = None
                              THEN DefaultOf(FieldType(ty, g))
                              ELSE f.slots[g]]), f.ms)]

\* Ok(Type { #(#unwrapper)* }): the fields in declaration order, the first
\* required field left empty returns its error
UnwrapFields(ty, f, missing) ==
    IF missing # {}
    THEN [f EXCEPT
            !.pc = "done",
            !.out = Err(<<"missing value for",
                          StructFields(ty)[CHOOSE i \in missing :
                                              \A j \in missing : i <= j].name>>,
                        CallSite, f.ms)]
    ELSE [f EXCEPT
            !.pc = "done",
            !.out = Ok(RecV(ty, [g \in FieldNames(ty) |->
                                   IF f.slots[g] = None
                                   THEN DefaultOf(FieldType(ty, g))
                                   ELSE f.slots[g]]), f.ms)]

UnwrapStep(ty, f) == UnwrapFields(ty, f, Missing(ty, f))

Step(ty, f) ==
    CASE f.pc = "name" -> NameStep(ty, f)
      [] f.pc = "value" -> ValueStep(ty, f)
      [] OTHER -> UnwrapStep(ty, f)

RECURSIVE Run(_, _)
Run(ty, f) == IF f.pc = "done" THEN f.out ELSE Run(ty, Step(ty, f))

\* <T as FromMeta>::from_meta(MetaStream::new(c))
FromMeta(ty, c) == Run(ty, Frame(ty, c))

-----------------------------------------------------------------------------
(* Tree mode (macrotk-core): MetaValue and MetaList::get.                  *)

IsLitTok(tok) == tok.k \in {"str", "bool", "int"}

\* a syn::Lit with its span
LitOf(c) == [k |-> Peek(c).k, s |-> Peek(c).s, span |-> TokSpan(c)]

\* input.parse::<Lit>()
ParseLit(c) ==
    IF ~IsEmpty(c) /\ IsLitTok(Peek(c)) THEN Ok(LitOf(c), Adv(c))
    ELSE Err(<<"expected literal">>, HereSpan(c), c)

MvPath(p) == [t |-> "Path", name |-> p]
MvNameValue(p, eq, lit) == [t |-> "NameValue", name |-> p, eq |-> eq, value |-> lit]
MvList(p, paren, list) == [t |-> "List", name |-> p, paren |-> paren, list |-> list]
MvLit(lit) == [t |-> "Lit", lit |-> lit]

RECURSIVE ParseMetaValue(_)

\* Punctuated::parse_terminated(MetaValue::parse) on a group's interior
RECURSIVE ParseTerminated(_, _)
ParseTerminated(c, acc) ==
    IF IsEmpty(c) THEN Ok(acc, c)
    ELSE LET value == ParseMetaValue(c)
         IN IF ~value.ok THEN value
            ELSE IF IsEmpty(value.cur) THEN Ok(Append(acc, value.val), value.cur)
                 ELSE LET punct == ParseTok(value.cur, "comma", ",")
                      IN IF ~punct.ok THEN punct
                         ELSE ParseTerminated(punct.cur, Append(acc, value.val))

\* impl Parse for MetaValue
ParseMetaValue(p) ==
    LET name == ParsePath(p)
    IN IF name.ok
       THEN IF PeekK(name.cur, "paren")
            THEN LET list == ParseTerminated(
                                 Cursor(Peek(name.cur).body, TokSpan(name.cur)), <<>>)
                 IN IF ~list.ok THEN Err(list.msg, list.span, Adv(name.cur))
                    ELSE Ok(MvList(name.val, TokSpan(name.cur), list.val), Adv(name.cur))
            ELSE IF PeekK(name.cur, "eq")
                 THEN LET eq == Adv(name.cur)
                          value == ParseLit(eq)
                      IN IF ~value.ok THEN value
                         ELSE Ok(MvNameValue(name.val, TokSpan(name.cur), value.val),
                                 value.cur)
                 ELSE Ok(MvPath(name.val), name.cur)
       ELSE LET lit == ParseLit(name.cur)
            IN IF lit.ok THEN Ok(MvLit(lit.val), lit.cur) ELSE lit

\* syn::parse_quote!(empty)
EmptyName == PathVal(FALSE, <<"empty">>, CallSite, CallSite)

\* MetaValue::empty
MvEmpty == MvList(EmptyName, CallSite, <<>>)

\* MetaValue::as_list
AsList(mv) == IF mv.t = "List" THEN mv ELSE MvList(EmptyName, CallSite, <<mv>>)

\* impl Parse for Meta<T> (macrotk-core), up to T::from_meta
MetaParse(p) == IF IsEmpty(p) THEN Ok(MvEmpty, p) ELSE ParseMetaValue(p)

\* MetaValue::name: the last segment of the item's path; a literal has none
MvName(mv) ==
    IF mv.t = "Lit" THEN None
    ELSE [t |-> "ident", s |-> mv.name.segs[Len(mv.name.segs)]]

\* MetaValue::literal
MvLiteral(mv) ==
    IF mv.t = "Lit" THEN [ok |-> TRUE, val |-> mv.lit, msg |-> <<>>, span |-> NoSpan]
    ELSE [ok |-> FALSE, val |-> None, msg |-> <<"expected a literal">>,
          span |-> <<mv.name.from, mv.name.to>>]

\* impl FromMeta for LitStr (macrotk-core)
LitStrFromMeta(mv) ==
    LET lit == MvLiteral(mv)
    IN IF ~lit.ok THEN lit
       ELSE IF lit.val.k = "str" THEN lit
            ELSE [ok |-> FALSE, val |-> None, msg |-> <<"expected str literal">>,
                  span |-> CallSite]

\* impl<T: FromMeta> FromMeta for Option<T>, T = LitStr
OptionFromMeta(mv) ==
    LET r == LitStrFromMeta(mv)
    IN IF r.ok THEN [r EXCEPT !.val = [t |-> "Some", v |-> r.val]] ELSE r

CoreFromMeta(ty, mv) == IF ty = "LitStr" THEN LitStrFromMeta(mv) ELSE OptionFromMeta(mv)

\* mutant: the last matching child is taken
MetaListGet_LastMatch(list, ty, name) ==
    LET hits == {i \in 1..Len(list.list) :
                    MvName(list.list[i]) # None /\ MvName(list.list[i]).s = name}
        item == list.list[CHOOSE i \in hits : \A j \in hits : i >= j]
        conv == IF item.t = "NameValue" THEN MvLit(item.value) ELSE item
    IN IF hits = {} THEN [tag |-> "None"]
       ELSE [tag |-> "Some", res |-> CoreFromMeta(ty, conv)]

\* MetaList::get::<T>(name)
MetaListGet(list, ty, name) ==
    LET hits == {i \in 1..Len(list.list) :
                    MvName(list.list[i]) # None /\ MvName(list.list[i]).s = name}
        item == list.list[CHOOSE i \in hits : \A j \in hits : i <= j]
        conv == IF item.t = "NameValue" THEN MvLit(item.value) ELSE item
    IN IF hits = {} THEN [tag |-> "None"]
       ELSE [tag |-> "Some", res |-> CoreFromMeta(ty, conv)]

-----------------------------------------------------------------------------
(* Inputs.  An attribute body is a list of chunks (one item each), joined  *)
(* by commas; one comma may be missing and a trailing comma may follow.    *)

MaxPairs == 3       \* items of a derive-mode body
MaxCallPairs == 2   \* items of a body read by direct MetaStream calls
MaxRaw == 3         \* tokens of an arbitrary token sequence
MaxItems == 3       \* items of a tree-mode list

HI == StrLit("\"hi\"")
HI_ESC == StrLit("\"\\x68i\"")
BYE == StrLit("\"bye\"")
X == StrLit("\"x\"")
BIG == IntLit("9223372036854775808")

Pair(name, value) == <<Id(name), Eq, value>>

\* well-formed name = value pairs of Outer's fields
GoodChunks ==
    { Pair("keyword", HI_ESC), Pair("keyword", BYE), Pair("flag", BoolLit("true")),
      Pair("count", IntLit("0x10")), Pair("inner", Brace(Pair("keyword", X))) }

\* items that are not, or not for Outer
BadChunks ==
    { Pair("unknownkey", IntLit("5")),
      <<Id("keyword")>>,
      <<Id("keyword"), Eq>>,
      <<Id("x"), Colon2, Id("keyword"), Eq, HI>>,
      Pair("count", HI),
      Pair("count", BIG),
      Pair("inner", HI),
      Pair("inner", Brace(Pair("unknownkey", IntLit("5")))),
      Pair("inner", Brace(<<Id("flag"), Eq, BoolLit("true"), Comma>>)),
      Pair("inner", Brace(Pair("keyword", X) \o Pair("flag", BoolLit("false")))) }

\* sequences of n chunks, at most one of them from bad
RECURSIVE ChunkSeqs(_, _, _)
ChunkSeqs(good, bad, n) ==
    IF n = 0 THEN {<<>>}
    ELSE {<<c>> \o r : c \in good, r \in ChunkSeqs(good, bad, n - 1)}
         \cup {<<c>> \o r : c \in bad, r \in ChunkSeqs(good, {}, n - 1)}

\* the chunks joined by commas, none after chunk `missing` (0: none missing),
\* and a trailing comma if `trailing`
RECURSIVE Render(_, _, _)
Render(chs, missing, trailing) ==
    IF chs = <<>> THEN (IF trailing THEN <<Comma>> ELSE <<>>)
    ELSE Head(chs)
         \o (IF Len(chs) > 1 /\ missing # 1 THEN <<Comma>> ELSE <<>>)
         \o (IF Len(chs) = 1 THEN (IF trailing THEN <<Comma>> ELSE <<>>)
             ELSE Render(Tail(chs), missing - 1, trailing))

Bodies(good, bad, max) ==
    { Render(chs, m, t) :
        chs \in UNION {ChunkSeqs(good, bad, n) : n \in 0..max},
        m \in 0..(max - 1), t \in BOOLEAN }

RawAlphabet ==
    { Id("keyword"), Eq, Comma, Colon2, HI, BoolLit("true"), Brace(<<>>) }

RECURSIVE RawSeqs(_)
RawSeqs(n) ==
    IF n = 0 THEN {<<>>}
    ELSE RawSeqs(n - 1) \cup {Append(r, t) : r \in RawSeqs(n - 1), t \in RawAlphabet}

\* items of a tree-mode list
TreeChunks ==
    { <<Id("a")>>, Pair("a", HI), Pair("b", BYE), Pair("a", IntLit("5")), <<X>>,
      <<Id("x"), Colon2, Id("a"), Eq, BYE>>,
      <<Id("a"), Paren(<<>>)>>,
      <<Id("b"), Paren(<<Id("a"), Comma, X, Comma>>)>>,
      <<Id("a"), Eq, Id("b")>>,
      <<Colon2, HI>> }

\* Outer's field attributes: no field defaulted, some, all; and attributes
\* NamedField::new rejects
NoAttrs == [f \in FieldNames("Outer") |-> <<>>]
Default == << <<"default">> >>

Decls ==
    { NoAttrs,
      [NoAttrs EXCEPT !.flag = Default],
      [NoAttrs EXCEPT !.flag = Default \o Default, !.count = Default, !.inner = Default],
      [f \in FieldNames("Outer") |-> Default],
      [NoAttrs EXCEPT !.flag = << <<"default">>, <<"other">> >>],
      [NoAttrs EXCEPT !.count = << <<"macrotk", "default">> >>] }

-----------------------------------------------------------------------------
(* The state machines.                                                     *)

NoCall(c) == [op |-> "none", ty |-> "", pre |-> c, res |-> MsNone(c)]
Call(op, ty, c, r) == [op |-> op, ty |-> ty, pre |-> c, res |-> r]

Idle ==
    /\ pc = "idle" /\ slots = <<>> /\ pending = "" /\ out = None
    /\ tree = None /\ got = None

\* the types next_value is called at
ValueTypes == {"String", "bool", "i64", "Name", "Inner"}

(* Direct calls: a caller holding a MetaStream over the body calls         *)
(* next_name and next_value in any order, and stops at the first error.    *)

InitCalls ==
    /\ input \in RawSeqs(MaxRaw) \cup Bodies(GoodChunks, BadChunks, MaxCallPairs)
    /\ decl = NoAttrs
    /\ ms = Cursor(input, <<>>)
    /\ last = NoCall(ms)
    /\ Idle

CallNextName ==
    /\ last.res.tag # "Err"
    /\ last' = Call("next_name", "", ms, NextName(ms))
    /\ ms' = last'.res.cur
    /\ UNCHANGED <<input, decl, pc, slots, pending, out, tree, got>>

CallNextValue ==
    /\ last.res.tag # "Err"
    /\ \E ty \in ValueTypes :
          last' = Call("next_value", ty, ms, NextValue(ty, ms))
    /\ ms' = last'.res.cur
    /\ UNCHANGED <<input, decl, pc, slots, pending, out, tree, got>>

NextCalls == CallNextName \/ CallNextValue

SpecCalls == InitCalls /\ [][NextCalls]_vars

(* Derive: #[derive(FromMeta)] on Outer expands (or is rejected), then     *)
(* Outer::from_meta runs over the body, one MetaStream call per step.      *)

InitDerive ==
    /\ input \in Bodies(GoodChunks, BadChunks, MaxPairs)
    /\ decl \in Decls
    /\ ms = Cursor(input, <<>>)
    /\ last = NoCall(ms)
    /\ pc = "derive" /\ slots = <<>> /\ pending = "" /\ out = None
    /\ tree = None /\ got = None

st == [pc |-> pc, ms |-> ms, slots |-> slots, pending |-> pending, out |-> out]

Becomes(new) ==
    /\ pc' = new.pc /\ ms' = new.ms /\ slots' = new.slots
    /\ pending' = new.pending /\ out' = new.out

\* derive_from_meta: the fields' attributes are read; an error is a compile error
DeriveFromMeta ==
    /\ pc = "derive"
    /\ IF FieldsOk("Outer")
       THEN Becomes(Frame("Outer", ms))
       ELSE Becomes([st EXCEPT !.pc = "compile_error"])
    /\ UNCHANGED <<input, decl, last, tree, got>>

LoopNextName ==
    /\ pc = "name"
    /\ Becomes(NameStep("Outer", st))
    /\ last' = Call("next_name", "", ms, NextName(ms))
    /\ UNCHANGED <<input, decl, tree, got>>

ArmNextValue ==
    /\ pc = "value"
    /\ Becomes(ValueStep("Outer", st))
    /\ last' = Call("next_value", FieldType("Outer", pending), ms,
                    NextValue(FieldType("Outer", pending), ms))
    /\ UNCHANGED <<input, decl, tree, got>>

Unwrap ==
    /\ pc = "unwrap"
    /\ Becomes(UnwrapStep("Outer", st))
    /\ UNCHANGED <<input, decl, last, tree, got>>

NextDerive == DeriveFromMeta \/ LoopNextName \/ ArmNextValue \/ Unwrap

SpecDerive == InitDerive /\ [][NextDerive]_vars

(* Tree mode: Meta::parse reads the body as one MetaValue; the caller      *)
(* then looks names up in it (as a list).                                  *)

InitTree ==
    /\ input \in { <<Id("attr"), Paren(b)>> : b \in Bodies(TreeChunks, {}, MaxItems) }
                 \cup {<<>>} \cup TreeChunks
    /\ decl = NoAttrs
    /\ ms = Cursor(input, <<>>)
    /\ last = NoCall(ms)
    /\ Idle

Parse ==
    /\ tree = None
    /\ tree' = MetaParse(ms)
    /\ UNCHANGED <<input, decl, ms, last, pc, slots, pending, out, got>>

Get ==
    /\ tree # None /\ tree.ok
    /\ \E name \in {"a", "b", "c"}, ty \in {"LitStr", "Option"} :
          got' = [name |-> name, ty |-> ty,
                  res |-> MetaListGet(AsList(tree.val), ty, name)]
    /\ UNCHANGED <<input, decl, ms, last, pc, slots, pending, out, tree>>

NextTree == Parse \/ Get

SpecTree == InitTree /\ [][NextTree]_vars

-----------------------------------------------------------------------------
(* Properties of MetaStream (checked under SpecCalls).                     *)

\* tokens a..b of toks are a path: an optional leading `::`, then
\* identifiers separated by `::`
IsPath(toks, a, b) ==
    LET s == IF toks[a].k = "colon2" THEN a + 1 ELSE a
    IN /\ s <= b /\ b <= Len(toks) /\ (b - s) % 2 = 0
       /\ \A i \in s..b : toks[i].k = (IF (i - s) % 2 = 0 THEN "ident" ELSE "colon2")

\* the positions b at which a path starting at the cursor is followed by `=`
NameEnds(c) ==
    {b \in c.pos..(Len(c.toks) - 1) : IsPath(c.toks, c.pos, b) /\ c.toks[b + 1].k = "eq"}

\* C1: after next_value has converted a value, it consumes a comma only if
\* tokens remain in the scope: at the end of the scope it returns the value
\* and consumes nothing more, before a comma it returns the value and consumes
\* exactly that comma, and before any other token it fails with an error at
\* that token (the first token of the next pair).  So a successful next_value
\* leaves the cursor at the end of the scope or just after a comma.
C1_CommaRule ==
    (last.op = "next_value" /\ ~IsEmpty(last.pre)) =>
        LET conv == FromMetaValue(last.ty, last.pre)
        IN /\ conv.ok =>
                IF IsEmpty(conv.cur)
                THEN /\ last.res.tag = "Some" /\ last.res.val = conv.val
                     /\ last.res.cur = conv.cur
                ELSE IF Peek(conv.cur).k = "comma"
                     THEN /\ last.res.tag = "Some" /\ last.res.val = conv.val
                          /\ last.res.cur = Adv(conv.cur)
                     ELSE /\ last.res.tag = "Err"
                          /\ last.res.span = TokSpan(conv.cur)
                          /\ last.res.span # CallSite
                          /\ last.res.span # TokSpan(last.pre)
           /\ last.res.tag = "Some" =>
                \/ IsEmpty(ms)
                \/ input[ms.pos - 1].k = "comma"

\* `keyword = "hi" keyword ...`: next_value::<String> has read "hi" and fails
\* at the second pair's name
C1_Witness ==
    /\ last.op = "next_value" /\ last.ty = "String" /\ last.res.tag = "Err"
    /\ last.pre.pos = 3 /\ input[3].k = "str"
    /\ Len(input) >= 6 /\ input[4].k = "ident" /\ input[5].k = "eq"
    /\ last.res.span = <<4>>

\* C2: on a cursor with no tokens left, next_name and next_value return
\* Ok(None), never an error, and consume nothing.
C2_Exhausted ==
    (last.op \in {"next_name", "next_value"} /\ IsEmpty(last.pre)) =>
        /\ last.res.tag = "None"
        /\ last.res.cur = last.pre
        /\ ms = last.pre

\* next_name at the end of a body of which earlier calls have read a pair
C2_Witness ==
    /\ last.op = "next_name" /\ IsEmpty(last.pre) /\ last.pre.pos > 3
    /\ last.res.tag = "None"

\* C3: on a non-empty cursor next_name returns a Name exactly when the cursor
\* is at a path followed by `=`, and then it has consumed that path and the
\* `=` and nothing else, and the Name is the path's text with its span; in
\* every other case (no path, a bare path, a path followed by a group) it
\* returns an error.
C3_NameNeedsEq ==
    (last.op = "next_name" /\ ~IsEmpty(last.pre)) =>
        IF NameEnds(last.pre) # {}
        THEN \E b \in NameEnds(last.pre) :
                /\ last.res.tag = "Some"
                /\ last.res.cur = [last.pre EXCEPT !.pos = b + 2]
                /\ last.res.val.name = [i \in 1..(b - last.pre.pos + 1) |->
                                           input[last.pre.pos + i - 1].s]
                /\ last.res.val.span = <<<<last.pre.pos>>, <<b>>>>
        ELSE last.res.tag = "Err" /\ last.res.val = None

\* a bare path item: `keyword` followed by a comma or by nothing
C3_Witness ==
    /\ last.op = "next_name" /\ last.res.tag = "Err"
    /\ input[last.pre.pos].k = "ident"
    /\ (last.pre.pos < Len(input) => input[last.pre.pos + 1].k = "comma")
    /\ last.res.span = HereSpan(Adv(last.pre))

-----------------------------------------------------------------------------
(* Properties of the derived from_meta (checked under SpecDerive).  The    *)
(* body is read here directly, by position: a flat body is pairs of three  *)
(* tokens, name = value, with a comma after each but (possibly) the last.  *)

NPairs(toks) == (Len(toks) + 1) \div 4

IsFlat(toks) ==
    /\ Len(toks) \in {0, 4 * NPairs(toks) - 1, 4 * NPairs(toks)}
    /\ Len(toks) = 0 \/ NPairs(toks) >= 1
    /\ \A i \in 1..NPairs(toks) :
          /\ toks[4 * i - 3].k = "ident"
          /\ toks[4 * i - 2].k = "eq"
          /\ toks[4 * i - 1].k \in {"str", "bool", "int", "brace"}
          /\ 4 * i <= Len(toks) => toks[4 * i].k = "comma"

PairName(toks, i) == toks[4 * i - 3].s
PairTok(toks, i) == toks[4 * i - 1]

Names(toks) == {PairName(toks, i) : i \in 1..NPairs(toks)}

Distinct(toks) ==
    \A i, j \in 1..NPairs(toks) : PairName(toks, i) = PairName(toks, j) => i = j

\* the last pair of the body that names f
LastOf(toks, f) ==
    CHOOSE i \in 1..NPairs(toks) :
        /\ PairName(toks, i) = f
        /\ \A j \in 1..NPairs(toks) : PairName(toks, j) = f => j <= i

\* the type of each declared field, as declared in the structs
TypeOf(ty, f) ==
    IF ty = "Outer"
    THEN [keyword |-> "String", flag |-> "bool", count |-> "i64", inner |-> "Inner"][f]
    ELSE [keyword |-> "String", flag |-> "bool"][f]

Declared(ty) == IF ty = "Outer" THEN {"keyword", "flag", "count", "inner"}
                ELSE {"keyword", "flag"}

\* the field carries #[macrotk(default)]
IsDefaulted(ty, f) ==
    IF ty = "Outer" THEN \E i \in 1..Len(decl[f]) : decl[f][i] = <<"default">>
    ELSE f = "flag"

\* the value a literal denotes, as written
Written(tok) ==
    CASE tok = StrLit("\"hi\"") -> [t |-> "String", s |-> "hi"]
      [] tok = StrLit("\"\\x68i\"") -> [t |-> "String", s |-> "hi"]
      [] tok = StrLit("\"bye\"") -> [t |-> "String", s |-> "bye"]
      [] tok = StrLit("\"x\"") -> [t |-> "String", s |-> "x"]
      [] tok = BoolLit("true") -> [t |-> "bool", b |-> TRUE]
      [] tok = BoolLit("false") -> [t |-> "bool", b |-> FALSE]
      [] tok = IntLit("5") -> [t |-> "i64", n |-> 5]
      [] tok = IntLit("0x10") -> [t |-> "i64", n |-> 16]
      [] OTHER -> [t |-> "invalid"]

\* a flat body of literal pairs, each for a declared field of ty and of its
\* type, every required field of ty among them
ValidLiterals(ty, toks) ==
    /\ IsFlat(toks)
    /\ \A i \in 1..NPairs(toks) :
          /\ PairName(toks, i) \in Declared(ty)
          /\ Written(PairTok(toks, i)).t = TypeOf(ty, PairName(toks, i))
    /\ \A f \in Declared(ty) : IsDefaulted(ty, f) \/ f \in Names(toks)

\* Default::default() of each field type
TypeDefault(ty) ==
    CASE ty = "String" -> [t |-> "String", s |-> ""]
      [] ty = "bool" -> [t |-> "bool", b |-> FALSE]
      [] ty = "i64" -> [t |-> "i64", n |-> 0]
      [] ty = "Inner" ->
           [t |-> "rec", ty |-> "Inner",
            f |-> [keyword |-> [t |-> "String", s |-> ""],
                   flag |-> [t |-> "bool", b |-> FALSE]]]

\* the record a valid body of literal pairs is to assemble to (last pair of a
\* name, default for a name never written)
Assembled(ty, toks) ==
    [t |-> "rec", ty |-> ty,
     f |-> [f \in Declared(ty) |->
              IF f \in Names(toks) THEN Written(PairTok(toks, LastOf(toks, f)))
              ELSE TypeDefault(TypeOf(ty, f))]]

\* C4: round trip.  For every valid body of name = literal pairs with distinct
\* names (declared string, bool and i64 fields, each literal of its field's
\* type and in range, every required field present), in whatever order the
\* pairs come, from_meta succeeds and every named field holds exactly the value
\* written for it.
C4_RoundTrip ==
    (pc = "done" /\ ValidLiterals("Outer", input) /\ Distinct(input)) =>
        /\ out.ok
        /\ out.val.t = "rec" /\ out.val.ty = "Outer"
        /\ \A i \in 1..NPairs(input) :
              out.val.f[PairName(input, i)] = Written(PairTok(input, i))

\* three pairs, count first and keyword (written with an escape) last
C4_Witness ==
    /\ pc = "done" /\ ValidLiterals("Outer", input) /\ Distinct(input)
    /\ NPairs(input) = 3
    /\ PairName(input, 1) = "count" /\ PairName(input, 3) = "keyword"
    /\ PairTok(input, 3) = HI_ESC
    /\ out.ok /\ out.val.f.keyword.s = "hi" /\ out.val.f.count.n = 16

\* C5 (as the specification states it): when next_name returns a name that is
\* no declared field, from_meta returns an error at once: no record, nothing
\* more is read, the message names the key, and the error's span is the span
\* of that name.
C5_UnknownKeyAtName ==
    (last.op = "next_name" /\ last.res.tag = "Some"
        /\ \A f \in Declared("Outer") : last.res.val.name # <<f>>) =>
        /\ pc = "done" /\ ~out.ok /\ out.val = None
        /\ ms = last.res.cur
        /\ out.msg = <<"unexpected value">> \o last.res.val.name
        /\ out.span = last.res.val.span

\* C6: field policy.  When the scan has ended by exhaustion, a declared field
\* is empty exactly if its name never appeared, and the empty fields resolve
\* by policy alone: if a required field is empty the result is the error
\* "missing value for <field>" for such a field, at the call site; otherwise
\* the record holds every filled field's value and the type's default for
\* every empty one.  An empty body assembles iff every field is defaulted,
\* and then to the defaults.
C6_FieldPolicy ==
    (pc = "done" /\ last.op = "next_name" /\ last.res.tag = "None") =>
        LET empty == {f \in Declared("Outer") : slots[f] = None}
            required == {f \in empty : ~IsDefaulted("Outer", f)}
        IN /\ IsFlat(input) => empty = Declared("Outer") \ Names(input)
           /\ IF required # {}
              THEN /\ ~out.ok /\ out.span = CallSite
                   /\ \E f \in required : out.msg = <<"missing value for", f>>
              ELSE /\ out.ok
                   /\ \A f \in Declared("Outer") :
                         out.val.f[f] = IF f \in empty
                                        THEN TypeDefault(TypeOf("Outer", f))
                                        ELSE slots[f]
           /\ input = <<>> =>
                /\ out.ok <=> \A f \in Declared("Outer") : IsDefaulted("Outer", f)
                /\ out.ok => out.val.f.flag = [t |-> "bool", b |-> FALSE]
                /\ out.ok => out.val = Assembled("Outer", <<>>)

\* the empty body against a struct whose fields are all defaulted
C6_Witness ==
    /\ pc = "done" /\ input = <<>> /\ out.ok
    /\ out.val.f.flag = [t |-> "bool", b |-> FALSE]

\* C7: a record as a value.  next_value for a field whose type derives
\* FromMeta fails at a token that is not a `{ ... }` group; at a group whose
\* interior is a valid body of the nested struct it yields the record that
\* interior assembles to, whatever follows the group, and then treats the
\* token after the group by the comma rule; at a group whose interior is not
\* valid it fails, with an error from inside the group, and the whole
\* assembly fails with that error.
C7_NestedRecord ==
    (last.op = "next_value" /\ last.ty = "Inner" /\ ~IsEmpty(last.pre)) =>
        LET tok == Peek(last.pre)
            after == Adv(last.pre)
        IN IF tok.k # "brace"
           THEN /\ last.res.tag = "Err" /\ last.res.span = TokSpan(last.pre)
                /\ pc = "done" /\ ~out.ok
           ELSE IF ValidLiterals("Inner", tok.body)
                THEN Distinct(tok.body) =>
                       /\ IF IsEmpty(after)
                          THEN /\ last.res.tag = "Some" /\ last.res.cur = after
                          ELSE IF Peek(after).k = "comma"
                               THEN /\ last.res.tag = "Some"
                                    /\ last.res.cur = Adv(after)
                               ELSE /\ last.res.tag = "Err"
                                    /\ last.res.span = TokSpan(after)
                       /\ last.res.tag = "Some" =>
                             /\ last.res.val = Assembled("Inner", tok.body)
                             /\ slots.inner = Assembled("Inner", tok.body)
                             /\ pc = "name"
                ELSE /\ last.res.tag = "Err"
                     /\ \/ last.res.span = CallSite
                        \/ last.res.span = TokSpan(last.pre)
                        \/ /\ Len(last.res.span) = 2
                           /\ last.res.span[1] = last.pre.pos
                           /\ last.res.span[2] \in 1..Len(tok.body)
                     /\ pc = "done" /\ ~out.ok /\ out.val = None
                     /\ out.span = last.res.span /\ out.msg = last.res.msg

\* `inner = { keyword = "x" }, <another pair>` assembled: the scan went on
\* after the group
C7_Witness ==
    /\ pc = "done" /\ out.ok
    /\ IsFlat(input) /\ NPairs(input) >= 2
    /\ PairName(input, 1) = "inner" /\ PairTok(input, 1) = Brace(Pair("keyword", X))
    /\ out.val.f.inner.f.keyword = [t |-> "String", s |-> "x"]

\* C10: duplicate names.  For a valid body of literal pairs in which a name
\* occurs more than once, from_meta raises no error and the record holds, for
\* every name written, the value of its last pair; each value read is stored
\* into its field's slot whether or not the slot was filled.
C10_LastWins ==
    /\ (pc = "done" /\ ValidLiterals("Outer", input) /\ ~Distinct(input)) =>
          /\ out.ok
          /\ out.val = Assembled("Outer", input)
    /\ (last.op = "next_value" /\ last.res.tag = "Some") =>
          slots[pending] = last.res.val

\* `keyword = "\x68i", keyword = "bye"` assembles to keyword: "bye"
C10_Witness ==
    /\ pc = "done" /\ out.ok
    /\ ValidLiterals("Outer", input) /\ NPairs(input) = 2
    /\ PairName(input, 1) = "keyword" /\ PairName(input, 2) = "keyword"
    /\ PairTok(input, 1) = HI_ESC /\ PairTok(input, 2) = BYE
    /\ out.val.f.keyword = [t |-> "String", s |-> "bye"]

-----------------------------------------------------------------------------
(* Properties of tree mode (checked under SpecTree).                       *)

\* the end of the path at the start of toks: the path is not followed by `::`
PathEnds(toks) ==
    {b \in 1..Len(toks) :
        IsPath(toks, 1, b) /\ (b < Len(toks) => toks[b + 1].k # "colon2")}

\* the items of a group's interior: one per comma, and one more after the
\* last comma if tokens follow it
ItemCount(body) ==
    Cardinality({i \in 1..Len(body) : body[i].k = "comma"})
    + (IF body # <<>> /\ body[Len(body)].k # "comma" THEN 1 ELSE 0)

\* where an item starts in the source
ItemStart(mv) == IF mv.t = "Lit" THEN mv.lit.span ELSE mv.name.from

InOrder(list) ==
    \A i, j \in 1..Len(list) :
        i < j => ItemStart(list[i])[Len(ItemStart(list[i]))]
                   < ItemStart(list[j])[Len(ItemStart(list[j]))]

\* C8 (as the specification states it): the item at the start of the body is
\* classified by its first tokens.  If it starts with a path, the token after
\* the path decides: `(` a list named by the path, with the group's items as
\* children in source order (none for an empty group); `=` a name-value pair
\* whose value is the literal after the `=`, an error if no literal follows;
\* anything else, or the end, the bare path.  If it does not start with a
\* path it is the literal it starts with, and if it starts with neither the
\* result is an error.
C8_ItemForm ==
    (tree # None /\ input # <<>>) =>
        IF PathEnds(input) # {}
        THEN LET b == CHOOSE b \in PathEnds(input) : TRUE
                 name == [i \in 1..b |-> input[i].s]
             IN IF b < Len(input) /\ input[b + 1].k = "paren"
                THEN /\ input[b + 1].body = <<>> => tree.ok
                     /\ tree.ok =>
                           /\ tree.val.t = "List" /\ PathText(tree.val.name) = name
                           /\ Len(tree.val.list) = ItemCount(input[b + 1].body)
                           /\ InOrder(tree.val.list)
                           /\ tree.cur.pos = b + 2
                ELSE IF b < Len(input) /\ input[b + 1].k = "eq"
                     THEN IF b + 2 <= Len(input) /\ IsLitTok(input[b + 2])
                          THEN /\ tree.ok /\ tree.val.t = "NameValue"
                               /\ PathText(tree.val.name) = name
                               /\ tree.val.value =
                                     [k |-> input[b + 2].k, s |-> input[b + 2].s,
                                      span |-> <<b + 2>>]
                               /\ tree.cur.pos = b + 3
                          ELSE ~tree.ok
                     ELSE /\ tree.ok /\ tree.val.t = "Path"
                          /\ PathText(tree.val.name) = name
                          /\ tree.cur.pos = b + 1
        ELSE IF IsLitTok(input[1])
             THEN /\ tree.ok /\ tree.val.t = "Lit"
                  /\ tree.val.lit = [k |-> input[1].k, s |-> input[1].s, span |-> <<1>>]
                  /\ tree.cur.pos = 2
             ELSE ~tree.ok

\* the children get looks through
Children == IF tree.val.t = "List" THEN tree.val.list ELSE <<tree.val>>

\* the children whose name's last segment is n
Named(n) ==
    {i \in 1..Len(Children) :
        /\ Children[i].t # "Lit"
        /\ Children[i].name.segs[Len(Children[i].name.segs)] = n}

\* C9: lookup by name.  The children of a parsed list are the group's items,
\* one each, in source order.  get(name) is None iff no child (path,
\* name-value or list) has a name whose last segment is `name`; otherwise it
\* is Some of the conversion of the first such child alone: for a name-value
\* child the conversion of its value as a literal (Ok of the literal if it is
\* a string literal), an error for a bare path, for a list and for a value
\* that is no string literal.
C9_GetFirstMatch ==
    /\ (tree # None /\ tree.ok /\ tree.val.t = "List" /\ Len(input) = 2) =>
          /\ Len(tree.val.list) = ItemCount(input[2].body)
          /\ InOrder(tree.val.list)
    /\ got # None =>
          IF Named(got.name) = {}
          THEN got.res.tag = "None"
          ELSE LET first == CHOOSE i \in Named(got.name) :
                                \A j \in Named(got.name) : i <= j
                   child == Children[first]
               IN /\ got.res.tag = "Some"
                  /\ IF child.t = "NameValue" /\ child.value.k = "str"
                     THEN /\ got.res.res.ok
                          /\ got.res.res.val =
                               IF got.ty = "LitStr" THEN child.value
                               ELSE [t |-> "Some", v |-> child.value]
                     ELSE ~got.res.res.ok

\* attr(a = "hi", x::a = "bye"): get("a") is the first child's "hi"
C9_Witness ==
    /\ got # None /\ got.name = "a" /\ got.ty = "LitStr"
    /\ Cardinality(Named("a")) >= 2
    /\ Children[1].t = "NameValue" /\ Children[1].value.s = "\"hi\""
    /\ Children[2].t = "NameValue" /\ Children[2].value.s = "\"bye\""
    /\ Len(Children[2].name.segs) = 2
    /\ got.res.tag = "Some" /\ got.res.res.ok /\ got.res.res.val.s = "\"hi\""

====
